---- MODULE Spec2Model ----
(***************************************************************************)
(* Model of app_futebol.py: a Flask + SQLAlchemy (SQLite) application that *)
(* records per-match football statistics and serves a cumulative ranking.  *)
(*                                                                         *)
(* Text (query-string values, form values, player names) is a sequence of  *)
(* one-character strings.  A table row's id is its index in the sequence   *)
(* that models the table (rows are never deleted).  A NULL column of an    *)
(* Estatistica row is a column name missing from DOMAIN row.cols.          *)
(***************************************************************************)
EXTENDS Integers, Sequences, FiniteSets, TLC

VARIABLES jogadores, partidas, estatisticas, nreq, proc, lock, stalled

vars == <<jogadores, partidas, estatisticas, nreq, proc, lock, stalled>>

(***************************************************************************)
(* Bounds of the model.                                                    *)
(***************************************************************************)
\* The number of requests a client sends one after the other.
MaxRequests == 4
\* The number of requests sent to the threaded server in one run.
MaxOverlap == 2
\* The largest counter value of a row that was not written by POST /.
MaxContador == 2

(***************************************************************************)
(* Text helpers.                                                           *)
(***************************************************************************)
\* The characters the model uses, in code-point order.
Chars == <<" ", "+", "-", "0", "1", "2", "3", "4", "5", "6", "7", "8", "9", "_", "a", "b", "c">>

Ord(c) == CHOOSE i \in 1..Len(Chars) : Chars[i] = c

DigitChars == <<"0", "1", "2", "3", "4", "5", "6", "7", "8", "9">>

IsDigit(c) == \E i \in 1..10 : DigitChars[i] = c

DigitVal(c) == (CHOOSE i \in 1..10 : DigitChars[i] = c) - 1

IsSpace(c) == c = " "

RECURSIVE LStrip(_)
LStrip(s) == IF s # <<>> /\ IsSpace(Head(s)) THEN LStrip(Tail(s)) ELSE s

RECURSIVE RStrip(_)
RStrip(s) == IF s # <<>> /\ IsSpace(s[Len(s)]) THEN RStrip(SubSeq(s, 1, Len(s) - 1)) ELSE s

Strip(s) == RStrip(LStrip(s))

\* Digits with single underscores between them, as Python's int() accepts.
DigitsOk(t) ==
    /\ t # <<>>
    /\ \A i \in 1..Len(t) :
          \/ IsDigit(t[i])
          \/ /\ t[i] = "_"
             /\ 1 < i /\ i < Len(t)
             /\ IsDigit(t[i - 1]) /\ IsDigit(t[i + 1])

RECURSIVE DigitsValue(_, _)
DigitsValue(t, acc) ==
    IF t = <<>> THEN acc
    ELSE IF Head(t) = "_" THEN DigitsValue(Tail(t), acc)
    ELSE DigitsValue(Tail(t), 10 * acc + DigitVal(Head(t)))

\* Python int(text): [ok |-> FALSE] stands for ValueError.
PyInt(s) ==
    LET t == Strip(s)
        signed == t # <<>> /\ Head(t) \in {"+", "-"}
        body == IF signed THEN Tail(t) ELSE t
    IN  IF DigitsOk(body)
        THEN [ok |-> TRUE,
              val |-> IF signed /\ Head(t) = "-" THEN 0 - DigitsValue(body, 0)
                      ELSE DigitsValue(body, 0)]
        ELSE [ok |-> FALSE, val |-> 0]

\* str.split(sep): the pieces of s between occurrences of sep.
RECURSIVE Split(_, _, _)
Split(s, sep, cur) ==
    IF s = <<>> THEN <<cur>>
    ELSE IF Head(s) = sep THEN <<cur>> \o Split(Tail(s), sep, <<>>)
    ELSE Split(Tail(s), sep, Append(cur, Head(s)))

\* Lexicographic comparison by code point (SQLite BINARY collation).
RECURSIVE LexLess(_, _)
LexLess(a, b) ==
    IF b = <<>> THEN FALSE
    ELSE IF a = <<>> THEN TRUE
    ELSE IF Ord(Head(a)) < Ord(Head(b)) THEN TRUE
    ELSE IF Ord(Head(a)) > Ord(Head(b)) THEN FALSE
    ELSE LexLess(Tail(a), Tail(b))

(***************************************************************************)
(* Dates.                                                                  *)
(***************************************************************************)
IsLeap(y) == (y % 4 = 0 /\ y % 100 # 0) \/ y % 400 = 0

DaysInMonth(y, m) ==
    IF m = 2 THEN (IF IsLeap(y) THEN 29 ELSE 28)
    ELSE IF m \in {4, 6, 9, 11} THEN 30 ELSE 31

\* datetime.date(ano, mes, dia) raises ValueError unless this holds.
DateOk(y, m, d) ==
    /\ 1 <= y /\ y <= 9999
    /\ 1 <= m /\ m <= 12
    /\ 1 <= d /\ d <= DaysInMonth(y, m)

RECURSIVE Pad(_, _)
Pad(n, width) ==
    IF width = 0 THEN <<>>
    ELSE Append(Pad(n \div 10, width - 1), DigitChars[(n % 10) + 1])

\* date.isoformat(): YYYY-MM-DD.
isoformat(dt) == Pad(dt[1], 4) \o <<"-">> \o Pad(dt[2], 2) \o <<"-">> \o Pad(dt[3], 2)

\* Lines 87-92 of index(): the date the request is about.
\* [ok |-> FALSE] stands for the ValueError of a malformed date.
data_partida(args, hoje) ==
    IF "data" \in DOMAIN args /\ args["data"] # <<>>
    THEN LET parts == Split(args["data"], "-", <<>>)
             ints == [i \in 1..Len(parts) |-> PyInt(parts[i])]
         IN  IF /\ Len(parts) = 3
                /\ \A i \in 1..3 : ints[i].ok
                /\ DateOk(ints[1].val, ints[2].val, ints[3].val)
             THEN [ok |-> TRUE, data |-> <<ints[1].val, ints[2].val, ints[3].val>>]
             ELSE [ok |-> FALSE, data |-> <<>>]
    ELSE [ok |-> TRUE, data |-> hoje]

(***************************************************************************)
(* Tables and queries.                                                     *)
(***************************************************************************)
\* The five counter columns of lines 39-45.
CamposSet == {"gols", "assistencias", "vitorias", "empates", "sem_gol"}

\* Jogador(nome, goleiro) as line 200 builds it.
Jogador(nome, goleiro) == [nome |-> nome, goleiro |-> goleiro]

\* Partida(data) as line 97 builds it.
Partida(data) == [data |-> data]

\* Estatistica(partida_id, jogador_id) of lines 130-133 with the five
\* assignments of lines 136-140.
Estatistica(partida_id, jogador_id, cols) ==
    [partida_id |-> partida_id, jogador_id |-> jogador_id, cols |-> cols]

\* Mutant of FirstPartida: the lookup never finds the row.
FirstPartida_Never(ps, data) == 0

\* Partida.query.filter_by(data=...).first(): the row id, 0 for None.
FirstPartida(ps, data) ==
    IF \E i \in 1..Len(ps) : ps[i].data = data
    THEN CHOOSE i \in 1..Len(ps) :
            /\ ps[i].data = data
            /\ \A k \in 1..(i - 1) : ps[k].data # data
    ELSE 0

\* Mutant of FirstEstat: the lookup never finds the row.
FirstEstat_Never(es, pid, jid) == 0

\* Estatistica.query.filter_by(partida_id=, jogador_id=).first(): the row
\* id, 0 for None.
FirstEstat(es, pid, jid) ==
    IF \E i \in 1..Len(es) : es[i].partida_id = pid /\ es[i].jogador_id = jid
    THEN CHOOSE i \in 1..Len(es) :
            /\ es[i].partida_id = pid /\ es[i].jogador_id = jid
            /\ \A k \in 1..(i - 1) : ~(es[k].partida_id = pid /\ es[k].jogador_id = jid)
    ELSE 0

\* ORDER BY nome: j comes before k.  Rows with equal names come out in
\* rowid order, the order SQLite scans the table in.
NomeAntes(js, j, k) ==
    \/ LexLess(js[j].nome, js[k].nome)
    \/ (js[j].nome = js[k].nome /\ j < k)

RECURSIVE InsertByNome(_, _, _)
InsertByNome(js, sorted, j) ==
    IF sorted = <<>> THEN <<j>>
    ELSE IF NomeAntes(js, j, Head(sorted)) THEN <<j>> \o sorted
    ELSE <<Head(sorted)>> \o InsertByNome(js, Tail(sorted), j)

RECURSIVE OrderByNomeUpTo(_, _)
OrderByNomeUpTo(js, n) ==
    IF n = 0 THEN <<>> ELSE InsertByNome(js, OrderByNomeUpTo(js, n - 1), n)

\* Jogador.query.order_by(Jogador.nome).all(): the player ids in name order.
OrderByNome(js) == OrderByNomeUpTo(js, Len(js))

(***************************************************************************)
(* Scoring.                                                                *)
(***************************************************************************)
\* `est.campo or 0`: a NULL column counts as 0.
Or0(est, campo) == IF campo \in DOMAIN est.cols THEN est.cols[campo] ELSE 0

\* Mutant of pontos_dia: a goalkeeper's draws count like a field player's.
pontos_dia_DrawsForAll(est, js) ==
    IF est.jogador_id \in 1..Len(js) /\ js[est.jogador_id].goleiro
    THEN 2 * (Or0(est, "sem_gol") + Or0(est, "vitorias")
              + Or0(est, "assistencias") + Or0(est, "gols")) + Or0(est, "empates")
    ELSE 2 * Or0(est, "gols") + 2 * Or0(est, "assistencias")
         + 2 * Or0(est, "vitorias") + 1 * Or0(est, "empates")

\* Estatistica.pontos_dia
pontos_dia(est, js) ==
    IF est.jogador_id \in 1..Len(js) /\ js[est.jogador_id].goleiro
    THEN 2 * (Or0(est, "sem_gol") + Or0(est, "vitorias")
              + Or0(est, "assistencias") + Or0(est, "gols"))
    ELSE 2 * Or0(est, "gols") + 2 * Or0(est, "assistencias")
         + 2 * Or0(est, "vitorias") + 1 * Or0(est, "empates")

(***************************************************************************)
(* Requests the model sends.                                               *)
(***************************************************************************)
\* A mapping with no key: request.args without `data`, an empty form.
Vazio == [k \in {} |-> <<>>]

Data1 == <<2024, 2, 29>>
Data2 == <<2024, 3, 1>>

\* The days date.today() may return.
Hoje == {Data1, Data2}

\* Query strings: no date, two well-formed dates (one not zero-padded), a
\* day that does not exist, a string with two parts only.
ArgsSet ==
    {Vazio,
     [data |-> <<"2", "0", "2", "4", "-", "0", "2", "-", "2", "9">>],
     [data |-> <<"2", "0", "2", "4", "-", "3", "-", "1">>],
     [data |-> <<"2", "0", "2", "3", "-", "0", "2", "-", "2", "9">>],
     [data |-> <<"2", "0", "2", "4", "-", "0", "3">>]}

\* data_partida for every query string and day of the model, evaluated once.
DataPartidaTable == [a \in ArgsSet |-> [h \in Hoje |-> data_partida(a, h)]]

\* date.today() is read only when the query string carries no date.
HojeFor == [a \in ArgsSet |-> IF DataPartidaTable[a][Data1] = DataPartidaTable[a][Data2] THEN {Data1} ELSE Hoje]

\* The counter fields one player's part of a form may carry.
LinhaA == [gols |-> <<"2">>, assistencias |-> <<"1">>, vitorias |-> <<" ", "1", " ">>, empates |-> <<"0", "1">>]
LinhaB ==
    [gols |-> <<"a", "b", "c">>, assistencias |-> <<>>, vitorias |-> <<"+", "2">>,
     empates |-> <<"-", "3">>, sem_gol |-> <<"3">>]

Linhas == {Vazio, LinhaA, LinhaB}

\* The player ids whose fields the forms carry.
FormIds == {1, 2}

\* The form whose fields for player i are those of linhas[i].
FormOf(linhas) ==
    [k \in UNION {{<<i, c>> : c \in DOMAIN linhas[i]} : i \in DOMAIN linhas} |-> linhas[k[1]][k[2]]]

Forms == {FormOf(l) : l \in [FormIds -> Linhas]}

\* Forms of POST /jogadores.
Nomes == {<<"a">>, <<"b">>}

PlayerForms ==
    {Vazio, [nome |-> <<>>, goleiro |-> <<"1">>]}
    \cup {[nome |-> n] : n \in Nomes}
    \cup {[nome |-> <<"a">>, goleiro |-> <<"1">>], [nome |-> <<"b">>, goleiro |-> <<>>]}

(***************************************************************************)
(* POST /: the counters of the form.                                       *)
(***************************************************************************)
\* request.form.get(key, default)
FormGet(form, key, default) == IF key \in DOMAIN form THEN form[key] ELSE default

\* get_int of lines 111-116; the key is the pair (jogador.id, nome_campo)
\* that the text f'j{jogador.id}_' + nome_campo encodes.
get_int(form, jid, nome_campo) ==
    LET val == FormGet(form, <<jid, nome_campo>>, <<"0">>)
        r == PyInt(val)
    IN  IF r.ok THEN r.val ELSE 0

\* Lines 118-122: the five counters parsed for one player.
ParsedColsOf(form, jid) ==
    [gols |-> get_int(form, jid, "gols"),
     assistencias |-> get_int(form, jid, "assistencias"),
     vitorias |-> get_int(form, jid, "vitorias"),
     empates |-> get_int(form, jid, "empates"),
     sem_gol |-> get_int(form, jid, "sem_gol")]

\* ParsedColsOf for every form and player id of the model, evaluated once.
ParsedTable == [f \in Forms |-> [j \in 1..(MaxRequests + 1) |-> ParsedColsOf(f, j)]]

ParsedCols(form, jid) == ParsedTable[form][jid]

(***************************************************************************)
(* GET /: the page.                                                        *)
(***************************************************************************)
\* Mutant of Total: the player's first row is left out of the sum.
RECURSIVE Total_SkipFirst(_, _, _, _, _)
Total_SkipFirst(es, js, jid, campo, n) ==
    IF n = 0 \/ (\A i \in 1..(n - 1) : es[i].jogador_id # jid) THEN 0
    ELSE Total_SkipFirst(es, js, jid, campo, n - 1)
         + (IF es[n].jogador_id = jid
            THEN (IF campo = "pontos" THEN pontos_dia(es[n], js) ELSE Or0(es[n], campo))
            ELSE 0)

\* Lines 157-170: the totals of one player over jogador.estatisticas.
RECURSIVE Total(_, _, _, _, _)
Total(es, js, jid, campo, n) ==
    IF n = 0 THEN 0
    ELSE Total(es, js, jid, campo, n - 1)
         + (IF es[n].jogador_id = jid
            THEN (IF campo = "pontos" THEN pontos_dia(es[n], js) ELSE Or0(es[n], campo))
            ELSE 0)

\* Lines 172-180: the summary of one player.
RankingEntry(es, js, jid) ==
    [jogador |-> jid,
     gols |-> Total(es, js, jid, "gols", Len(es)),
     assistencias |-> Total(es, js, jid, "assistencias", Len(es)),
     vitorias |-> Total(es, js, jid, "vitorias", Len(es)),
     empates |-> Total(es, js, jid, "empates", Len(es)),
     sem_gol |-> Total(es, js, jid, "sem_gol", Len(es)),
     pontos |-> Total(es, js, jid, "pontos", Len(es))]

\* Mutant of InsertDesc: an entry goes before the entries with an equal total.
RECURSIVE InsertDesc_BeforeEqual(_, _)
InsertDesc_BeforeEqual(sorted, e) ==
    IF sorted = <<>> THEN <<e>>
    ELSE IF Head(sorted).pontos > e.pontos
         THEN <<Head(sorted)>> \o InsertDesc_BeforeEqual(Tail(sorted), e)
    ELSE <<e>> \o sorted

\* list.sort(key=pontos, reverse=True): stable, so an entry goes after every
\* entry already placed whose total is greater than or equal to its own.
RECURSIVE InsertDesc(_, _)
InsertDesc(sorted, e) ==
    IF sorted = <<>> THEN <<e>>
    ELSE IF Head(sorted).pontos >= e.pontos THEN <<Head(sorted)>> \o InsertDesc(Tail(sorted), e)
    ELSE <<e>> \o sorted

RECURSIVE SortDesc(_, _)
SortDesc(seq, n) ==
    IF n = 0 THEN <<>> ELSE InsertDesc(SortDesc(seq, n - 1), seq[n])

(***************************************************************************)
(* Sessions and SQLite.  Each request has a session and a connection of    *)
(* its own.  What the view adds or changes stays in the session until a    *)
(* flush sends it (before a query: autoflush; inside commit()).  The first *)
(* INSERT or UPDATE of a transaction takes SQLite's write lock, COMMIT     *)
(* releases it, and other connections read committed rows only.            *)
(***************************************************************************)
\* The threads of the development server (line 211) that answer requests.
Procs == {1, 2}

NoChanges == [ins |-> <<>>, upd |-> Vazio]

HasChanges(ch) == ch.ins # <<>> \/ DOMAIN ch.upd # {}

\* dict(f, **g)
Merge(f, g) == [k \in DOMAIN f \cup DOMAIN g |-> IF k \in DOMAIN g THEN g[k] ELSE f[k]]

\* The UPDATEs of two flushes, column by column.
MergeUpd(u, v) ==
    [k \in DOMAIN u \cup DOMAIN v |->
        IF k \in DOMAIN u /\ k \in DOMAIN v THEN Merge(u[k], v[k])
        ELSE IF k \in DOMAIN v THEN v[k] ELSE u[k]]

\* Session.flush(): the session's pending changes join the open transaction.
Flush(tx, pend) == [ins |-> tx.ins \o pend.ins, upd |-> MergeUpd(tx.upd, pend.upd)]

\* The table with a transaction's statements applied: an UPDATE sets the
\* columns it names and leaves the others as they are, the INSERTs follow.
Apply(es, tx) ==
    [i \in 1..Len(es) |->
        IF i \in DOMAIN tx.upd THEN [es[i] EXCEPT !.cols = Merge(@, tx.upd[i])] ELSE es[i]]
    \o tx.ins

\* Lines 136-140 on a loaded row: the columns whose value the assignments
\* change, the only ones the UPDATE will name.
Changed(loaded, cols) == {c \in DOMAIN cols : c \notin DOMAIN loaded \/ loaded[c] # cols[c]}

\* The rows as a session sees them: a row it has loaded keeps the values
\* it was loaded with (identity map), the others are read as committed.
Seen(es, sess) ==
    [i \in 1..Len(es) |-> IF i \in DOMAIN sess THEN [es[i] EXCEPT !.cols = sess[i]] ELSE es[i]]

\* unique=True of line 27: the date is taken.
DataUsada(ps, data) == \E i \in 1..Len(ps) : ps[i].data = data

\* The request waits for SQLite's write lock, held by another connection.
Blocked(p) == lock # 0 /\ lock # p

(***************************************************************************)
(* Responses.                                                              *)
(***************************************************************************)
\* Lines 103-104 and 182-191: the page of GET /.
Page(pid, js, roster, epj, entries) ==
    [status |-> 200,
     template |-> "index.html",
     partida |-> pid,
     goleiros |-> SelectSeq(roster, LAMBDA j : js[j].goleiro),
     jogadores_linha |-> SelectSeq(roster, LAMBDA j : ~js[j].goleiro),
     estat_por_jogador |-> epj,
     ranking |-> SortDesc(entries, Len(entries))]

\* redirect(url_for('index', data=data_partida.isoformat()))
RedirectIndex(data) == [status |-> 302, location |-> "index", data |-> isoformat(data)]

\* redirect(url_for('jogadores_view'))
RedirectJogadores == [status |-> 302, location |-> "jogadores_view", data |-> <<>>]

\* An exception that escapes the view: Flask answers 500.
Erro500(erro) == [status |-> 500, erro |-> erro]

(***************************************************************************)
(* A request, statement by statement.  proc[p] is the request thread p is  *)
(* answering: pc is the statement it sends next, resp the response once    *)
(* it is sent (pc = "done").                                               *)
(***************************************************************************)
Livre ==
    [pc |-> "idle", method |-> "", path |-> "", data |-> <<>>, form |-> Vazio, pid |-> 0,
     roster |-> <<>>, todo |-> <<>>, pend |-> NoChanges, tx |-> NoChanges, sess |-> Vazio,
     epj |-> Vazio, entries |-> <<>>, resp |-> [status |-> 0]]

\* The response is sent; the session is removed (its transaction rolled
\* back when still open).
Fim(me, r) ==
    [me EXCEPT !.pc = "done", !.todo = <<>>, !.pend = NoChanges, !.tx = NoChanges,
               !.sess = Vazio, !.epj = Vazio, !.entries = <<>>, !.resp = r]

\* index(), lines 85-92: the request arrives and its date is parsed.
index(p, limite, method, args, hoje, form) ==
    LET dp == DataPartidaTable[args][hoje]
        me == [Livre EXCEPT !.method = method, !.path = "/", !.form = form]
    IN  /\ proc[p].pc \in {"idle", "done"}
        /\ nreq < limite
        /\ nreq' = nreq + 1
        /\ proc' = [proc EXCEPT ![p] = IF dp.ok THEN [me EXCEPT !.pc = "partida", !.data = dp.data]
                                       ELSE Fim(me, Erro500("ValueError"))]
        /\ UNCHANGED <<jogadores, partidas, estatisticas, lock, stalled>>

\* Line 95: the SELECT of the Partida of the date.
LookupPartida(p) ==
    /\ proc[p].pc = "partida"
    /\ LET k == FirstPartida(partidas, proc[p].data)
       IN  proc' = [proc EXCEPT ![p].pid = k,
                                ![p].pc = IF k = 0 THEN "ins_partida" ELSE "jogadores"]
    /\ UNCHANGED <<jogadores, partidas, estatisticas, nreq, lock, stalled>>

\* Lines 97-99, the INSERT that commit() flushes: it takes the write lock.
\* unique=True on Partida.data makes it fail when another request created
\* the Partida since line 95; the transaction the INSERT opened keeps the
\* lock until the session rolls it back.
InsertPartida(p) ==
    /\ proc[p].pc = "ins_partida"
    /\ ~Blocked(p)
    /\ lock' = p
    /\ UNCHANGED stalled
    /\ proc' = IF DataUsada(partidas, proc[p].data)
               THEN [proc EXCEPT ![p].pc = "rollback_partida"]
               ELSE [proc EXCEPT ![p].pid = Len(partidas) + 1, ![p].pc = "commit_partida"]
    /\ UNCHANGED <<jogadores, partidas, estatisticas, nreq>>

\* Line 99, the ROLLBACK after the failed flush: the lock is released and
\* the IntegrityError ends the request.
RollbackPartida(p) ==
    /\ proc[p].pc = "rollback_partida"
    /\ lock' = 0
    /\ stalled' = FALSE
    /\ proc' = [proc EXCEPT ![p] = Fim(@, Erro500("IntegrityError"))]
    /\ UNCHANGED <<jogadores, partidas, estatisticas, nreq>>

\* Line 99, the COMMIT: the Partida becomes visible, the lock is released.
CommitPartida(p) ==
    /\ proc[p].pc = "commit_partida"
    /\ partidas' = Append(partidas, Partida(proc[p].data))
    /\ lock' = 0
    /\ stalled' = FALSE
    /\ proc' = [proc EXCEPT ![p].pc = "jogadores"]
    /\ UNCHANGED <<jogadores, estatisticas, nreq>>

\* Lines 102-104: the SELECT of the roster.  With no player a GET renders
\* the page at once and a POST goes to line 142.
QueryJogadores(p) ==
    /\ proc[p].pc = "jogadores"
    /\ LET me == proc[p]
           roster == OrderByNome(jogadores)
       IN  proc' = [proc EXCEPT ![p] =
                IF me.method = "POST"
                THEN [me EXCEPT !.roster = roster, !.todo = roster,
                                !.pc = IF roster = <<>> THEN "flush" ELSE "lookup"]
                ELSE IF roster = <<>>
                     THEN Fim([me EXCEPT !.roster = roster],
                              Page(me.pid, jogadores, roster, Vazio, <<>>))
                ELSE [me EXCEPT !.roster = roster, !.todo = roster, !.pc = "estat"]]
    /\ UNCHANGED <<jogadores, partidas, estatisticas, nreq, lock, stalled>>

\* Lines 109-140 for the next player: the query of line 124 first flushes
\* the session, then reads the committed rows and the transaction's own;
\* lines 129-140 change the session only: a new row is pending for INSERT,
\* a row found is pending for an UPDATE of the columns whose value changed.
Lookup(p) ==
    /\ proc[p].pc = "lookup"
    /\ HasChanges(proc[p].pend) => ~Blocked(p)
    /\ LET me == proc[p]
           tx == Flush(me.tx, me.pend)
           view == Apply(estatisticas, tx)
           jid == Head(me.todo)
           k == FirstEstat(view, me.pid, jid)
           cols == ParsedCols(me.form, jid)
           pend == IF k = 0 THEN [ins |-> <<Estatistica(me.pid, jid, cols)>>, upd |-> Vazio]
                   ELSE IF Changed(view[k].cols, cols) = {} THEN NoChanges
                   ELSE [ins |-> <<>>,
                         upd |-> [i \in {k} |-> [c \in Changed(view[k].cols, cols) |-> cols[c]]]]
       IN  /\ proc' = [proc EXCEPT ![p].tx = tx, ![p].pend = pend,
                                   ![p].todo = Tail(me.todo),
                                   ![p].pc = IF Tail(me.todo) = <<>> THEN "flush" ELSE "lookup"]
           /\ lock' = IF HasChanges(tx) THEN p ELSE lock
           /\ UNCHANGED stalled
    /\ UNCHANGED <<jogadores, partidas, estatisticas, nreq>>

\* Line 142, the flush inside commit(): what is still pending is sent and
\* takes the write lock.
FlushEstat(p) ==
    /\ proc[p].pc = "flush"
    /\ HasChanges(proc[p].pend) => ~Blocked(p)
    /\ LET tx == Flush(proc[p].tx, proc[p].pend)
       IN  /\ proc' = [proc EXCEPT ![p].tx = tx, ![p].pend = NoChanges, ![p].pc = "commit"]
           /\ lock' = IF HasChanges(tx) THEN p ELSE lock
           /\ UNCHANGED stalled
    /\ UNCHANGED <<jogadores, partidas, estatisticas, nreq>>

\* Lines 142-143: the COMMIT, then the redirect.
Commit(p) ==
    /\ proc[p].pc = "commit"
    /\ estatisticas' = Apply(estatisticas, proc[p].tx)
    /\ lock' = IF lock = p THEN 0 ELSE lock
    /\ stalled' = IF lock = p THEN FALSE ELSE stalled
    /\ proc' = [proc EXCEPT ![p] = Fim(@, RedirectIndex(proc[p].data))]
    /\ UNCHANGED <<jogadores, partidas, nreq>>

\* Lines 146-152 for the next player: the SELECT of the row of the day.
EstatPorJogador(p) ==
    /\ proc[p].pc = "estat"
    /\ LET me == proc[p]
           jid == Head(me.todo)
           k == FirstEstat(estatisticas, me.pid, jid)
           sess == IF k = 0 \/ k \in DOMAIN me.sess THEN me.sess
                   ELSE Merge(me.sess, [i \in {k} |-> estatisticas[k].cols])
       IN  proc' = [proc EXCEPT ![p].sess = sess,
                                ![p].epj = Merge(me.epj, [j \in {jid} |-> k]),
                                ![p].todo = IF Tail(me.todo) = <<>> THEN me.roster ELSE Tail(me.todo),
                                ![p].pc = IF Tail(me.todo) = <<>> THEN "rank" ELSE "estat"]
    /\ UNCHANGED <<jogadores, partidas, estatisticas, nreq, lock, stalled>>

\* Lines 155-180 for the next player: jogador.estatisticas is loaded by a
\* SELECT of its own and summed; after the last player, lines 182-191.
Ranking(p) ==
    /\ proc[p].pc = "rank"
    /\ LET me == proc[p]
           jid == Head(me.todo)
           rows == {i \in 1..Len(estatisticas) : estatisticas[i].jogador_id = jid}
           sess == Merge([i \in rows |-> estatisticas[i].cols], me.sess)
           entries == Append(me.entries, RankingEntry(Seen(estatisticas, sess), jogadores, jid))
       IN  proc' = [proc EXCEPT ![p] =
                IF Tail(me.todo) = <<>>
                THEN Fim(me, Page(me.pid, jogadores, me.roster, me.epj, entries))
                ELSE [me EXCEPT !.sess = sess, !.entries = entries, !.todo = Tail(me.todo)]]
    /\ UNCHANGED <<jogadores, partidas, estatisticas, nreq, lock, stalled>>

\* jogadores_view(), lines 196-199 and 203: the request arrives.  A POST
\* without a name is redirected at once.
jogadores_view(p, limite, method, form) ==
    LET me == [Livre EXCEPT !.method = method, !.path = "/jogadores", !.form = form]
    IN  /\ proc[p].pc \in {"idle", "done"}
        /\ nreq < limite
        /\ nreq' = nreq + 1
        /\ proc' = [proc EXCEPT ![p] =
                IF method = "POST"
                THEN IF FormGet(form, "nome", <<>>) # <<>> THEN [me EXCEPT !.pc = "ins_jogador"]
                     ELSE Fim(me, RedirectJogadores)
                ELSE [me EXCEPT !.pc = "lista"]]
        /\ UNCHANGED <<jogadores, partidas, estatisticas, lock, stalled>>

\* Lines 200-202, the INSERT that commit() flushes: it takes the write lock.
InsertJogador(p) ==
    /\ proc[p].pc = "ins_jogador"
    /\ ~Blocked(p)
    /\ lock' = p
    /\ UNCHANGED stalled
    /\ proc' = [proc EXCEPT ![p].pc = "commit_jogador"]
    /\ UNCHANGED <<jogadores, partidas, estatisticas, nreq>>

\* Lines 202-203: the COMMIT, then the redirect.
CommitJogador(p) ==
    /\ proc[p].pc = "commit_jogador"
    /\ jogadores' = Append(jogadores, Jogador(FormGet(proc[p].form, "nome", <<>>),
                                              FormGet(proc[p].form, "goleiro", <<>>) # <<>>))
    /\ lock' = 0
    /\ stalled' = FALSE
    /\ proc' = [proc EXCEPT ![p] = Fim(@, RedirectJogadores)]
    /\ UNCHANGED <<partidas, estatisticas, nreq>>

\* Lines 205-206: the SELECT of the list and the page.
Lista(p) ==
    /\ proc[p].pc = "lista"
    /\ proc' = [proc EXCEPT ![p] = Fim(@, [status |-> 200, template |-> "jodadores.html",
                                           jogadores |-> OrderByNome(jogadores)])]
    /\ UNCHANGED <<jogadores, partidas, estatisticas, nreq, lock, stalled>>

\* The statement thread p sends next needs the write lock and waits for it
\* (sqlite3's busy handler).
Waiting(p) ==
    /\ Blocked(p)
    /\ \/ proc[p].pc \in {"ins_partida", "ins_jogador"}
       \/ proc[p].pc \in {"lookup", "flush"} /\ HasChanges(proc[p].pend)

\* The thread that holds the write lock is held up (not scheduled, stopped
\* in the debugger of debug=True) while a statement waits for the lock,
\* for as long as sqlite3's busy timeout (5 s by default).
Stall ==
    /\ ~stalled
    /\ \E p \in Procs : Waiting(p)
    /\ stalled' = TRUE
    /\ UNCHANGED <<jogadores, partidas, estatisticas, nreq, proc, lock>>

\* The wait for the write lock has run out (sqlite3.OperationalError:
\* database is locked): the exception ends the request.
LockTimeout(p) ==
    /\ stalled
    /\ Waiting(p)
    /\ stalled' = FALSE
    /\ proc' = [proc EXCEPT ![p] = Fim(@, Erro500("OperationalError"))]
    /\ UNCHANGED <<jogadores, partidas, estatisticas, nreq, lock>>

\* The next statement of the request of thread p.
Passo(p) ==
    \/ LookupPartida(p) \/ InsertPartida(p) \/ CommitPartida(p) \/ QueryJogadores(p)
    \/ Lookup(p) \/ FlushEstat(p) \/ Commit(p)
    \/ EstatPorJogador(p) \/ Ranking(p)
    \/ InsertJogador(p) \/ CommitJogador(p) \/ Lista(p)

(***************************************************************************)
(* Requests handled one at a time: a single client that sends a request    *)
(* when it has the response to the one before, so only one thread is ever  *)
(* busy.                                                                   *)
(***************************************************************************)
Init ==
    /\ jogadores = <<>>
    /\ partidas = <<>>
    /\ estatisticas = <<>>
    /\ nreq = 0
    /\ proc = [p \in Procs |-> Livre]
    /\ lock = 0
    /\ stalled = FALSE

IndexGet(p, limite, Args) ==
    \E args \in Args : \E hoje \in HojeFor[args] : index(p, limite, "GET", args, hoje, Vazio)

IndexPost(p, limite, Args, Fs) ==
    \E args \in Args : \E hoje \in HojeFor[args] : \E form \in Fs :
        index(p, limite, "POST", args, hoje, form)

JogadoresGet(p, limite) == jogadores_view(p, limite, "GET", Vazio)

JogadoresPost(p, limite, Fs) == \E form \in Fs : jogadores_view(p, limite, "POST", form)

Next ==
    \/ IndexGet(1, MaxRequests, ArgsSet)
    \/ IndexPost(1, MaxRequests, ArgsSet, Forms)
    \/ JogadoresGet(1, MaxRequests)
    \/ JogadoresPost(1, MaxRequests, PlayerForms)
    \/ Passo(1)

Spec == Init /\ [][Next]_vars

(***************************************************************************)
(* Reading a row that POST / did not write.  The counter columns are       *)
(* nullable (lines 39-45), so such a row may hold NULLs; pontos_dia and    *)
(* the ranking read them with `or 0`.                                      *)
(***************************************************************************)
InitNulo ==
    \E goleiro \in BOOLEAN : \E D \in SUBSET CamposSet :
    \E cols \in [D -> 0..MaxContador] :
        /\ jogadores = <<Jogador(<<"a">>, goleiro)>>
        /\ partidas = <<Partida(Data1)>>
        /\ estatisticas = <<Estatistica(1, 1, cols)>>
        /\ nreq = MaxRequests - 1    \* one request is left: the GET / that reads the row
        /\ proc = [p \in Procs |-> Livre]
        /\ lock = 0
        /\ stalled = FALSE

NextNulo ==
    \/ IndexGet(1, MaxRequests, ArgsSet)
    \/ LookupPartida(1) \/ InsertPartida(1) \/ CommitPartida(1) \/ QueryJogadores(1)
    \/ EstatPorJogador(1) \/ Ranking(1)

SpecNulo == InitNulo /\ [][NextNulo]_vars

(***************************************************************************)
(* Requests in flight at once: the development server answers each         *)
(* request in a thread of its own, so the statements of two requests       *)
(* interleave.  The runs start from a database that earlier requests left. *)
(***************************************************************************)
\* Query strings with a well-formed date.
ConcArgs == {a \in ArgsSet : "data" \in DOMAIN a /\ DataPartidaTable[a][Data1].ok}

\* Forms with the same fields for every player.
ConcForms == {FormOf([i \in FormIds |-> l]) : l \in Linhas}

ConcPlayerForms == {[nome |-> <<"a">>], [nome |-> <<"b">>, goleiro |-> <<"1">>]}

\* The rosters earlier POST /jogadores left.
ConcRosters ==
    {<<Jogador(<<"a">>, FALSE)>>, <<Jogador(<<"b">>, FALSE), Jogador(<<"a">>, FALSE)>>}

\* The rows one POST / with form f leaves for Partida 1, alone on an empty
\* table: one per roster player, in name order.
StoredBy(js, f) ==
    LET roster == OrderByNome(js)
    IN  [i \in 1..Len(roster) |-> Estatistica(1, roster[i], ParsedCols(f, roster[i]))]

InitConc ==
    /\ jogadores \in ConcRosters
    /\ \/ partidas = <<>> /\ estatisticas = <<>>
       \/ /\ partidas = <<Partida(Data1)>>
          /\ estatisticas \in {<<>>} \cup {StoredBy(jogadores, f) : f \in ConcForms}
    /\ nreq = 0
    /\ proc = [p \in Procs |-> Livre]
    /\ lock = 0
    /\ stalled = FALSE

NextConc ==
    \/ \E p \in Procs :
          \/ IndexGet(p, MaxOverlap, ConcArgs)
          \/ IndexPost(p, MaxOverlap, ConcArgs, ConcForms)
          \/ JogadoresGet(p, MaxOverlap)
          \/ JogadoresPost(p, MaxOverlap, ConcPlayerForms)
          \/ Passo(p)
          \/ RollbackPartida(p)
          \/ LockTimeout(p)
    \/ Stall

SpecConc == InitConc /\ [][NextConc]_vars

(***************************************************************************)
(* What the properties compare the program with.                           *)
(***************************************************************************)
\* The integer a form text stands for, written out text by text; a text
\* that is no integer stands for 0.
Esperado(t) ==
    CASE t = <<"2">> -> 2
      [] t = <<"1">> -> 1
      [] t = <<" ", "1", " ">> -> 1
      [] t = <<"0", "1">> -> 1
      [] t = <<"+", "2">> -> 2
      [] t = <<"-", "3">> -> 0 - 3
      [] t = <<"3">> -> 3
      [] t = <<"a", "b", "c">> -> 0
      [] t = <<>> -> 0

NaoInteiro == {<<"a", "b", "c">>, <<>>}

EsperadoCol(form, jid, campo) ==
    IF <<jid, campo>> \in DOMAIN form THEN Esperado(form[<<jid, campo>>]) ELSE 0

\* The rows of the pair (pid, jid).
RowsOf(es, pid, jid) == {i \in 1..Len(es) : es[i].partida_id = pid /\ es[i].jogador_id = jid}

\* The rows of a player over all matches.
RowsOfJogador(es, jid) == {i \in 1..Len(es) : es[i].jogador_id = jid}

RECURSIVE SumSet(_, _)
SumSet(S, f) ==
    IF S = {} THEN 0
    ELSE LET x == CHOOSE y \in S : TRUE IN f[x] + SumSet(S \ {x}, f)

\* A counter of a row, NULL read as 0.
Counter(e, campo) == IF campo \in DOMAIN e.cols THEN e.cols[campo] ELSE 0

\* The points the scoring rule gives a row.
Pontos(e, goleiro) ==
    IF goleiro
    THEN 2 * (Counter(e, "sem_gol") + Counter(e, "vitorias") + Counter(e, "assistencias") + Counter(e, "gols"))
    ELSE 2 * Counter(e, "gols") + 2 * Counter(e, "assistencias") + 2 * Counter(e, "vitorias") + Counter(e, "empates")


\* Thread p has answered a POST / with the redirect.
PostDone(p) ==
    /\ proc[p].pc = "done" /\ proc[p].method = "POST" /\ proc[p].path = "/"
    /\ proc[p].resp.status = 302

\* Thread p has answered a GET / with the page.
PageDone(p) ==
    /\ proc[p].pc = "done" /\ proc[p].method = "GET" /\ proc[p].path = "/"
    /\ proc[p].resp.status = 200

\* The players of a roster.
Range(s) == {s[i] : i \in 1..Len(s)}

\* C2: requests handled one at a time never leave two Estatistica rows
\* with the same (partida_id, jogador_id).
C2_OneRowPerPair ==
    \A i, k \in 1..Len(estatisticas) :
        (estatisticas[i].partida_id = estatisticas[k].partida_id
         /\ estatisticas[i].jogador_id = estatisticas[k].jogador_id) => i = k

\* A POST / about to commit the UPDATE of a row that a request before it
\* stored.
C2_Witness ==
    /\ proc[1].pc = "commit"
    /\ DOMAIN proc[1].tx.upd # {}
    /\ proc[1].tx.ins = <<>>

\* C3: when a POST / completes, every player of the roster it read has a
\* row for the match of the date whose five counters are the values the
\* form's texts stand for (0 for an absent field).
C3_PostStoresParsed ==
    [][\A p \in Procs :
          (proc[p].pc = "commit" /\ proc'[p].pc = "done") =>
              \A j \in Range(proc[p].roster) :
                  \E i \in RowsOf(estatisticas', proc[p].pid, j) :
                      \A c \in CamposSet :
                          /\ c \in DOMAIN estatisticas'[i].cols
                          /\ estatisticas'[i].cols[c] = EsperadoCol(proc[p].form, j, c)]_vars

\* C4: a POST / that completes after an equal POST / (same date, same form,
\* same roster) leaves the rows and their values as they were.
C4_RepeatedPostChangesNothing ==
    [][\A p, q \in Procs :
          (/\ p # q
           /\ proc[p].pc = "commit" /\ proc'[p].pc = "done"
           /\ PostDone(q)
           /\ proc[q].data = proc[p].data
           /\ proc[q].form = proc[p].form
           /\ proc[q].roster = proc[p].roster)
          => estatisticas' = estatisticas]_vars

UniqueDates(ps) == \A i, k \in 1..Len(ps) : ps[i].data = ps[k].data => i = k

\* C5: with requests handled one at a time no two Partida rows share a
\* date; a request to / for a date without a Partida adds exactly one row,
\* for that date, and a request for a date that has one adds none.
C5_OnePartidaPerDate ==
    [][/\ UniqueDates(partidas')
       /\ partidas' # partidas =>
             \E p \in Procs :
                /\ proc[p].pc = "commit_partida" /\ proc'[p].pc = "jogadores"
                /\ \A i \in 1..Len(partidas) : partidas[i].data # proc[p].data
                /\ partidas' = Append(partidas, [data |-> proc[p].data])
       /\ \A p \in Procs :
             /\ (proc[p].pc = "partida" /\ proc'[p].pc # "partida") =>
                   IF \E i \in 1..Len(partidas) : partidas[i].data = proc[p].data
                   THEN proc'[p].pc = "jogadores" /\ partidas' = partidas
                   ELSE proc'[p].pc = "ins_partida"
             /\ (proc[p].pc = "ins_partida" /\ proc'[p].pc # "ins_partida") =>
                   proc'[p].pc = "commit_partida"
             /\ (proc[p].pc = "commit_partida" /\ proc'[p].pc # "commit_partida") =>
                   Len(partidas') = Len(partidas) + 1
             /\ proc'[p].pc = "jogadores" =>
                   Cardinality({i \in 1..Len(partidas') : partidas'[i].data = proc'[p].data}) = 1]_vars

\* A request to / has found the Partida of its date, which an earlier
\* request had created.
C5_Witness ==
    /\ proc[1].pc = "jogadores"
    /\ proc[1].pid = 1
    /\ Len(partidas) = 2

\* C6: every stored counter is an integer >= 0.
C6_CountersNonNegative ==
    \A i \in 1..Len(estatisticas) : \A c \in DOMAIN estatisticas[i].cols :
        estatisticas[i].cols[c] >= 0

\* C7: in the ranking of GET / each player's totals are the sums, over the
\* player's rows of all matches as the request reads them, of the counters
\* and of the row's points; the page shows the totals so computed.
C7_RankingTotals ==
    [][\A p \in Procs :
          (proc[p].pc = "rank" /\ proc'[p] # proc[p]) =>
              LET j == Head(proc[p].todo)
                  rows == RowsOfJogador(estatisticas, j)
                  lido == [i \in rows |->
                              [cols |-> IF i \in DOMAIN proc[p].sess THEN proc[p].sess[i]
                                        ELSE estatisticas[i].cols]]
                  novas == IF proc'[p].pc = "done" THEN proc'[p].resp.ranking
                           ELSE proc'[p].entries
              IN  /\ Len(novas) = Len(proc[p].entries) + 1
                  /\ \A m \in 1..Len(proc[p].entries) :
                        \E n \in 1..Len(novas) : novas[n] = proc[p].entries[m]
                  /\ \E n \in 1..Len(novas) :
                        /\ novas[n].jogador = j
                        /\ \A c \in CamposSet :
                              novas[n][c] = SumSet(rows, [i \in rows |-> Counter(lido[i], c)])
                        /\ novas[n].pontos
                              = SumSet(rows, [i \in rows |->
                                                 Pontos(lido[i], jogadores[j].goleiro)])]_vars

\* A ranking with a player who has rows in two matches.
C7_Witness ==
    \E p \in Procs :
        /\ PageDone(p)
        /\ \E n \in 1..Len(proc[p].resp.ranking) :
              /\ Cardinality(RowsOfJogador(estatisticas, proc[p].resp.ranking[n].jogador)) = 2
              /\ proc[p].resp.ranking[n].pontos > 0

\* The place of a player among the players of a roster, by name and, for
\* equal names, by id.
PosInRoster(S, jid) ==
    1 + Cardinality({k \in S : \/ LexLess(jogadores[k].nome, jogadores[jid].nome)
                                \/ (jogadores[k].nome = jogadores[jid].nome /\ k < jid)})

\* C8: the ranking of GET / has exactly one entry per player of the roster
\* the request read (every player registered by then), totals never
\* increase along it, and entries with equal totals are in roster order.
C8_RankingOrder ==
    \A p \in Procs :
        PageDone(p) =>
            LET r == proc[p].resp.ranking
                S == Range(proc[p].roster)
            IN  /\ S = 1..Len(proc[p].roster)
                /\ Len(proc[p].roster) <= Len(jogadores)
                /\ Len(r) = Cardinality(S)
                /\ {r[n].jogador : n \in 1..Len(r)} = S
                /\ \A n \in 1..(Len(r) - 1) : r[n].pontos >= r[n + 1].pontos
                /\ \A n, m \in 1..Len(r) :
                      (n < m /\ r[n].pontos = r[m].pontos)
                          => PosInRoster(S, r[n].jogador) < PosInRoster(S, r[m].jogador)

\* A ranking with two players tied above zero, the one registered later first.
C8_Witness ==
    \E p \in Procs :
        /\ PageDone(p)
        /\ Len(proc[p].resp.ranking) = 2
        /\ proc[p].resp.ranking[1].pontos = proc[p].resp.ranking[2].pontos
        /\ proc[p].resp.ranking[1].pontos > 0
        /\ proc[p].resp.ranking[1].jogador = 2

\* C9: a POST / with a counter text that is no integer is not failed by
\* that text (a request past the date of the query string ends with the
\* redirect unless the database refuses one of its statements), and when
\* it is answered the row of every roster player holds 0 for such a
\* counter and the parsed value for every other counter of the form.
C9_BadTextIsZero ==
    [][\A p \in Procs :
          (/\ proc[p].pc \notin {"idle", "done", "rollback_partida"} /\ proc'[p].pc = "done"
           /\ proc'[p].resp # Erro500("OperationalError")
           /\ proc[p].method = "POST" /\ proc[p].path = "/"
           /\ \E k \in DOMAIN proc[p].form : proc[p].form[k] \in NaoInteiro)
          => /\ proc'[p].resp.status = 302
             /\ \A k \in DOMAIN proc[p].form :
                   k[1] \in Range(proc[p].roster) =>
                      \E i \in RowsOf(estatisticas', proc[p].pid, k[1]) :
                          estatisticas'[i].cols[k[2]]
                              = (IF proc[p].form[k] \in NaoInteiro THEN 0
                                 ELSE Esperado(proc[p].form[k]))]_vars

\* C1: pontos_dia is 2*(s+w+a+g) for a goalkeeper's row and 2g+2a+2w+d for
\* a field player's, a NULL counter read as 0, and the ranking of GET /
\* shows that number for a player with one row.
C1_PontosDia ==
    \A i \in 1..Len(estatisticas) :
        LET e == estatisticas[i]
            g == Counter(e, "gols")
            a == Counter(e, "assistencias")
            w == Counter(e, "vitorias")
            d == Counter(e, "empates")
            s == Counter(e, "sem_gol")
            pts == IF jogadores[e.jogador_id].goleiro THEN 2 * (s + w + a + g)
                   ELSE 2 * g + 2 * a + 2 * w + d
        IN  /\ pontos_dia(e, jogadores) = pts
            /\ PageDone(1) => proc[1].resp.ranking[1].pontos = pts

\* The ranking shown for a goalkeeper's row with draws and a NULL counter.
C1_Witness ==
    /\ PageDone(1)
    /\ jogadores[1].goleiro
    /\ "empates" \in DOMAIN estatisticas[1].cols
    /\ estatisticas[1].cols["empates"] = 2
    /\ "gols" \notin DOMAIN estatisticas[1].cols
    /\ proc[1].resp.ranking[1].pontos = 2

\* C10: after two POST / for one date that ran at once both ended, every
\* roster player has exactly one row for the match, holding the counters of
\* one of the two submissions.
C10_LastWriteWins ==
    (PostDone(1) /\ PostDone(2) /\ proc[1].data = proc[2].data) =>
        \A j \in Range(proc[1].roster) \cup Range(proc[2].roster) :
            LET rows == RowsOf(estatisticas, proc[1].pid, j)
            IN  /\ Cardinality(rows) = 1
                /\ \A i \in rows : \E p \in Procs : \A c \in CamposSet :
                      estatisticas[i].cols[c] = EsperadoCol(proc[p].form, j, c)

====
